---- MODULE Spec2Model ----
(***************************************************************************)
(* Eye-blink Morse communicator: the incoming-line interpreter, the Morse  *)
(* codec it uses and the two transport adapters of the communication page  *)
(* (web app v4.3/communication.js).                                        *)
(*                                                                         *)
(* A JavaScript string is modelled as a sequence of one-character strings, *)
(* so that trim, split and the regular expressions of the source are       *)
(* computed character by character.                                        *)
(***************************************************************************)
EXTENDS Integers, Sequences, FiniteSets, TLC

VARIABLES
    \* module state of communication.js (lines 4-12)
    serialPort,               \* 0 (null) or the port requestPort returned
    bluetoothDevice,          \* 0 (null) or the device requestDevice returned
    bluetoothCharacteristic,  \* 0 (null) or the device whose characteristic it is
    reader,                   \* 0 (null) or the port whose pipeline it reads
    keepReading,
    currentBuilding,          \* pattern shown as "building"
    decodedText,              \* accumulated output
    isConnected,
    connectionType,           \* "none" (null), "serial" or "bluetooth"
    \* page and settings
    connectDisabled,          \* connectBtn.disabled; disconnectBtn.disabled is its negation
    autoSave,                 \* settings.autoSave as getSettings() returns it
    autoTimer,                \* the auto-connect timeout of initializePage is pending
    platform,                 \* the transport connectDevice selects on this browser
    uuidDefined,              \* some script of the page defines BLUETOOTH_SERVICE_UUID
    \* browser objects
    portOpen,                 \* port -> the serial port is open
    loopState,                \* port -> state of the readSerialData loop on it
    lineBuf,                  \* port -> LineBreakTransformer.chunks of its pipeline
    gattConnected,            \* device -> its GATT server is connected
    notifying,                \* device -> notifications are started on its characteristic
    listening,                \* device -> handleBluetoothData is registered on it
    discListener,             \* device -> handleBluetoothDisconnection is registered
    procs,                    \* async calls suspended at an await
    localStorage,             \* the keys the connection handlers write
    firmware,                 \* the globals of the device sketch and the lines it sent
    \* history
    saveCalls,        \* number of saveCurrentMessage(true) calls made by handleDataLine
    crossings,        \* 10-character boundaries decodedText.length has crossed
    fed,              \* the lines handleDataLine has processed, in order
    sent,             \* the chunks delivered to both adapters (chunk specification)
    btFed,            \* the lines handleBluetoothData forwards for the chunks in sent
    streamClosed,     \* the chunk stream has ended and was flushed
    atDisconnect,     \* <<number of lines handled>> at the pending disconnect request
    call              \* the last call of a codec function or of addManualInput

vars ==
    <<serialPort, bluetoothDevice, bluetoothCharacteristic, reader, keepReading,
      currentBuilding, decodedText, isConnected, connectionType,
      connectDisabled, autoSave, autoTimer, platform, uuidDefined,
      portOpen, loopState, lineBuf, gattConnected, notifying, listening,
      discListener, procs, localStorage, firmware,
      saveCalls, crossings, fed, sent, btFed, streamClosed, atDisconnect,
      call>>

\* the state as one record, so that a handler is a function from state to state
Cur ==
    [serialPort |-> serialPort, bluetoothDevice |-> bluetoothDevice,
     bluetoothCharacteristic |-> bluetoothCharacteristic, reader |-> reader,
     keepReading |-> keepReading, currentBuilding |-> currentBuilding,
     decodedText |-> decodedText, isConnected |-> isConnected,
     connectionType |-> connectionType, connectDisabled |-> connectDisabled,
     autoSave |-> autoSave, autoTimer |-> autoTimer, platform |-> platform,
     uuidDefined |-> uuidDefined, portOpen |-> portOpen, loopState |-> loopState,
     lineBuf |-> lineBuf, gattConnected |-> gattConnected, notifying |-> notifying,
     listening |-> listening, discListener |-> discListener, procs |-> procs,
     localStorage |-> localStorage, firmware |-> firmware,
     saveCalls |-> saveCalls, crossings |-> crossings, fed |-> fed, sent |-> sent,
     btFed |-> btFed, streamClosed |-> streamClosed, atDisconnect |-> atDisconnect,
     call |-> call]

Becomes(n) ==
    /\ serialPort' = n.serialPort
    /\ bluetoothDevice' = n.bluetoothDevice
    /\ bluetoothCharacteristic' = n.bluetoothCharacteristic
    /\ reader' = n.reader
    /\ keepReading' = n.keepReading
    /\ currentBuilding' = n.currentBuilding
    /\ decodedText' = n.decodedText
    /\ isConnected' = n.isConnected
    /\ connectionType' = n.connectionType
    /\ connectDisabled' = n.connectDisabled
    /\ autoSave' = n.autoSave
    /\ autoTimer' = n.autoTimer
    /\ platform' = n.platform
    /\ uuidDefined' = n.uuidDefined
    /\ portOpen' = n.portOpen
    /\ loopState' = n.loopState
    /\ lineBuf' = n.lineBuf
    /\ gattConnected' = n.gattConnected
    /\ notifying' = n.notifying
    /\ listening' = n.listening
    /\ discListener' = n.discListener
    /\ procs' = n.procs
    /\ localStorage' = n.localStorage
    /\ firmware' = n.firmware
    /\ saveCalls' = n.saveCalls
    /\ crossings' = n.crossings
    /\ fed' = n.fed
    /\ sent' = n.sent
    /\ btFed' = n.btFed
    /\ streamClosed' = n.streamClosed
    /\ atDisconnect' = n.atDisconnect
    /\ call' = n.call

-----------------------------------------------------------------------------
(* Bounds *)

MaxFed == 3        \* lines fed to the interpreter in the line specification
MaxSaveFed == 6    \* lines fed in the auto-save specification
MaxChunks == 3     \* chunks delivered in the chunk specification
MaxDevices == 2    \* serial ports / Bluetooth devices the user can choose from
MaxProcs == 2      \* async calls suspended at the same time
MaxSessionFed == 1 \* lines handled before the last chunk of the session specification
MaxBuf == 2        \* characters of a partial line held by a transformer
MaxManualFed == 2  \* lines fed in the manual-entry specification
MaxManualText == 4 \* length of decodedText up to which manual entries are made
MaxDotDash == 5    \* length of the dot/dash-only lines tried on the interpreter
MaxTableFed == 2   \* table tokens fed as lines in the table specification
MaxPasses == 7     \* passes of loop() in the firmware specification
MaxBlinks == 2     \* blinks held in morseBuffer at a time
MaxTx == 3         \* lines the device sends in the firmware specification
MaxPieces == 3     \* chunks an alternative cut of the same text has
MaxCodecLen == 3   \* length of the strings passed to the codec functions

Devices == 1..MaxDevices

-----------------------------------------------------------------------------
(* Strings *)

WS == {" ", "\n", "\r", "\t"}

Last(s) == s[Len(s)]

RECURSIVE TrimStart(_)
TrimStart(s) ==
    IF s # <<>> /\ Head(s) \in WS THEN TrimStart(Tail(s)) ELSE s

RECURSIVE TrimEnd(_)
TrimEnd(s) ==
    IF s # <<>> /\ Last(s) \in WS THEN TrimEnd(SubSeq(s, 1, Len(s) - 1)) ELSE s

\* String.prototype.trim
Trim(s) == TrimEnd(TrimStart(s))

\* String.prototype.split(sep) for a one-character separator
RECURSIVE Split(_, _)
Split(s, sep) ==
    IF \A i \in 1..Len(s) : s[i] # sep
    THEN <<s>>
    ELSE LET i == CHOOSE k \in 1..Len(s) :
                      s[k] = sep /\ \A j \in 1..(k - 1) : s[j] # sep
         IN  <<SubSeq(s, 1, i - 1)>> \o Split(SubSeq(s, i + 1, Len(s)), sep)

\* String.prototype.replace(/\s+/g, ' ')
RECURSIVE CollapseWS(_)
CollapseWS(s) ==
    IF s = <<>> THEN <<>>
    ELSE IF Head(s) \in WS
         THEN <<" ">> \o CollapseWS(TrimStart(s))
         ELSE <<Head(s)>> \o CollapseWS(Tail(s))

StartsWith(s, p) == Len(s) >= Len(p) /\ SubSeq(s, 1, Len(p)) = p

Includes(s, c) == \E i \in 1..Len(s) : s[i] = c

-----------------------------------------------------------------------------
(* Morse codec of communication.js *)

MORSE_CODE_MAP ==
    (<<".", "-">> :> "A") @@ (<<"-", ".", ".", ".">> :> "B") @@
    (<<"-", ".", "-", ".">> :> "C") @@ (<<"-", ".", ".">> :> "D") @@
    (<<".">> :> "E") @@ (<<".", ".", "-", ".">> :> "F") @@
    (<<"-", "-", ".">> :> "G") @@ (<<".", ".", ".", ".">> :> "H") @@
    (<<".", ".">> :> "I") @@ (<<".", "-", "-", "-">> :> "J") @@
    (<<"-", ".", "-">> :> "K") @@ (<<".", "-", ".", ".">> :> "L") @@
    (<<"-", "-">> :> "M") @@ (<<"-", ".">> :> "N") @@
    (<<"-", "-", "-">> :> "O") @@ (<<".", "-", "-", ".">> :> "P") @@
    (<<"-", "-", ".", "-">> :> "Q") @@ (<<".", "-", ".">> :> "R") @@
    (<<".", ".", ".">> :> "S") @@ (<<"-">> :> "T") @@
    (<<".", ".", "-">> :> "U") @@ (<<".", ".", ".", "-">> :> "V") @@
    (<<".", "-", "-">> :> "W") @@ (<<"-", ".", ".", "-">> :> "X") @@
    (<<"-", ".", "-", "-">> :> "Y") @@ (<<"-", "-", ".", ".">> :> "Z") @@
    (<<"-", "-", "-", "-", "-">> :> "0") @@ (<<".", "-", "-", "-", "-">> :> "1") @@
    (<<".", ".", "-", "-", "-">> :> "2") @@ (<<".", ".", ".", "-", "-">> :> "3") @@
    (<<".", ".", ".", ".", "-">> :> "4") @@ (<<".", ".", ".", ".", ".">> :> "5") @@
    (<<"-", ".", ".", ".", ".">> :> "6") @@ (<<"-", "-", ".", ".", ".">> :> "7") @@
    (<<"-", "-", "-", ".", ".">> :> "8") @@ (<<"-", "-", "-", "-", ".">> :> "9")

\* /^[.\-\s/]+$/ on a non-empty string
isValidMorse(morse) ==
    /\ morse # <<>>
    /\ \A i \in 1..Len(morse) : morse[i] \in ({".", "-", "/"} \cup WS)

\* the callback of letters.map(...) in decodeMorse
decodeLetter(letter) ==
    IF letter = <<"/">> THEN <<" ">>
    ELSE IF letter \in DOMAIN MORSE_CODE_MAP THEN <<MORSE_CODE_MAP[letter]>>
    ELSE <<"?">>

RECURSIVE decodeLetters(_)
decodeLetters(letters) ==
    IF letters = <<>> THEN <<>>
    ELSE decodeLetter(Head(letters)) \o decodeLetters(Tail(letters))

decodeMorse(morse) ==
    IF morse = <<>> THEN <<>>
    ELSE IF Trim(morse) = <<"/">> THEN <<" ">>
    ELSE LET cleanMorse == CollapseWS(Trim(morse))
             letters == SelectSeq(Split(cleanMorse, " "), LAMBDA l : Len(l) > 0)
         IN  decodeLetters(letters)

-----------------------------------------------------------------------------
(* Morse codec of morse.js (web app v4.2). A JavaScript value is a record   *)
(* with its type; the value of a string is its sequence of characters.      *)

Str(s) == [type |-> "string", value |-> s]
Num(n) == [type |-> "number", value |-> n]
Null == [type |-> "null"]

\* !v
Falsy(v) ==
    \/ v.type = "null"
    \/ v.type = "string" /\ v.value = <<>>
    \/ v.type = "number" /\ v.value = 0

\* the entries of the MORSE_CODE literal, in source order
MORSE_CODE_ENTRIES ==
    << <<<<".", "-">>, "A">>,
       <<<<"-", ".", ".", ".">>, "B">>,
       <<<<"-", ".", "-", ".">>, "C">>,
       <<<<"-", ".", ".">>, "D">>,
       <<<<".">>, "E">>,
       <<<<".", ".", "-", ".">>, "F">>,
       <<<<"-", "-", ".">>, "G">>,
       <<<<".", ".", ".", ".">>, "H">>,
       <<<<".", ".">>, "I">>,
       <<<<".", "-", "-", "-">>, "J">>,
       <<<<"-", ".", "-">>, "K">>,
       <<<<".", "-", ".", ".">>, "L">>,
       <<<<"-", "-">>, "M">>,
       <<<<"-", ".">>, "N">>,
       <<<<"-", "-", "-">>, "O">>,
       <<<<".", "-", "-", ".">>, "P">>,
       <<<<"-", "-", ".", "-">>, "Q">>,
       <<<<".", "-", ".">>, "R">>,
       <<<<".", ".", ".">>, "S">>,
       <<<<"-">>, "T">>,
       <<<<".", ".", "-">>, "U">>,
       <<<<".", ".", ".", "-">>, "V">>,
       <<<<".", "-", "-">>, "W">>,
       <<<<"-", ".", ".", "-">>, "X">>,
       <<<<"-", ".", "-", "-">>, "Y">>,
       <<<<"-", "-", ".", ".">>, "Z">>,
       <<<<"-", "-", "-", "-", "-">>, "0">>,
       <<<<".", "-", "-", "-", "-">>, "1">>,
       <<<<".", ".", "-", "-", "-">>, "2">>,
       <<<<".", ".", ".", "-", "-">>, "3">>,
       <<<<".", ".", ".", ".", "-">>, "4">>,
       <<<<".", ".", ".", ".", ".">>, "5">>,
       <<<<"-", ".", ".", ".", ".">>, "6">>,
       <<<<"-", "-", ".", ".", ".">>, "7">>,
       <<<<"-", "-", "-", ".", ".">>, "8">>,
       <<<<"-", "-", "-", "-", ".">>, "9">>,
       <<<<"/">>, " ">>,
       <<<<".", "-", ".", "-", ".", "-">>, ".">>,
       <<<<"-", "-", ".", ".", "-", "-">>, ",">>,
       <<<<".", ".", "-", "-", ".", ".">>, "?">>,
       <<<<".", "-", "-", "-", "-", ".">>, "'">>,
       <<<<"-", ".", "-", ".", "-", "-">>, "!">>,
       <<<<"-", ".", ".", "-", ".">>, "/">>,
       <<<<"-", ".", "-", "-", ".">>, "(">>,
       <<<<"-", ".", "-", "-", ".", "-">>, ")">>,
       <<<<".", "-", ".", ".", ".">>, "&">>,
       <<<<"-", "-", "-", ".", ".", ".">>, ":">>,
       <<<<"-", ".", "-", ".", "-", ".">>, ";">>,
       <<<<"-", ".", ".", ".", "-">>, "=">>,
       <<<<".", "-", ".", "-", ".">>, "+">>,
       <<<<"-", ".", ".", ".", ".", "-">>, "-">>,
       <<<<".", ".", "-", "-", ".", "-">>, "_">>,
       <<<<".", "-", ".", ".", "-", ".">>, "\"">>,
       <<<<".", ".", ".", "-", ".", ".", "-">>, "$">>,
       <<<<".", "-", "-", ".", "-", ".">>, "@">> >>

\* MORSE_CODE: of two entries with the same key the later one stands
MORSE_CODE ==
    [t \in { MORSE_CODE_ENTRIES[i][1] : i \in DOMAIN MORSE_CODE_ENTRIES } |->
        LET i == CHOOSE k \in DOMAIN MORSE_CODE_ENTRIES :
                     /\ MORSE_CODE_ENTRIES[k][1] = t
                     /\ \A j \in DOMAIN MORSE_CODE_ENTRIES :
                            MORSE_CODE_ENTRIES[j][1] = t => j <= k
        IN  MORSE_CODE_ENTRIES[i][2]]

\* CHAR_TO_MORSE: Object.keys(MORSE_CODE).forEach assigns in key order, so of
\* two tokens with the same character the later one stands
CHAR_TO_MORSE ==
    [c \in { MORSE_CODE_ENTRIES[i][2] : i \in DOMAIN MORSE_CODE_ENTRIES } |->
        LET i == CHOOSE k \in DOMAIN MORSE_CODE_ENTRIES :
                     /\ MORSE_CODE[MORSE_CODE_ENTRIES[k][1]] = c
                     /\ \A j \in DOMAIN MORSE_CODE_ENTRIES :
                            MORSE_CODE[MORSE_CODE_ENTRIES[j][1]] = c => j <= k
        IN  MORSE_CODE_ENTRIES[i][1]]

\* the character U+00DF, whose upper case is the two characters SS
SHARP_S == "sharp-s"

\* String.prototype.toUpperCase, character by character
UpperOf ==
        ("a" :> <<"A">>) @@ ("b" :> <<"B">>) @@ ("c" :> <<"C">>) @@ ("d" :>
        <<"D">>) @@ ("e" :> <<"E">>) @@ ("f" :> <<"F">>) @@ ("g" :> <<"G">>)
        @@ ("h" :> <<"H">>) @@ ("i" :> <<"I">>) @@ ("j" :> <<"J">>) @@ ("k" :>
        <<"K">>) @@ ("l" :> <<"L">>) @@ ("m" :> <<"M">>) @@ ("n" :> <<"N">>)
        @@ ("o" :> <<"O">>) @@ ("p" :> <<"P">>) @@ ("q" :> <<"Q">>) @@ ("r" :>
        <<"R">>) @@ ("s" :> <<"S">>) @@ ("t" :> <<"T">>) @@ ("u" :> <<"U">>)
        @@ ("v" :> <<"V">>) @@ ("w" :> <<"W">>) @@ ("x" :> <<"X">>) @@ ("y" :>
        <<"Y">>) @@ ("z" :> <<"Z">>) @@
        (SHARP_S :> <<"S", "S">>)

RECURSIVE toUpperCase(_)
toUpperCase(s) ==
    IF s = <<>> THEN <<>>
    ELSE (IF Head(s) \in DOMAIN UpperOf THEN UpperOf[Head(s)] ELSE <<Head(s)>>)
         \o toUpperCase(Tail(s))

\* Array.prototype.join(' ')
RECURSIVE Join(_)
Join(parts) ==
    IF parts = <<>> THEN <<>>
    ELSE IF Len(parts) = 1 THEN Head(parts)
    ELSE Head(parts) \o <<" ">> \o Join(Tail(parts))

\* the callback of letters.map(...) with the punctuation entries missing
Morse_decodeLetter_LettersAndDigitsOnly(letter) ==
    IF letter = <<"/">> THEN <<" ">>
    ELSE IF letter \in DOMAIN MORSE_CODE_MAP THEN <<MORSE_CODE_MAP[letter]>>
    ELSE <<"?">>

\* the callback of letters.map(...) in decodeMorse of morse.js
Morse_decodeLetter(letter) ==
    IF letter = <<"/">> THEN <<" ">>
    ELSE IF letter \in DOMAIN MORSE_CODE THEN <<MORSE_CODE[letter]>>
    ELSE <<"?">>

RECURSIVE Morse_decodeLetters(_)
Morse_decodeLetters(letters) ==
    IF letters = <<>> THEN <<>>
    ELSE Morse_decodeLetter(Head(letters)) \o Morse_decodeLetters(Tail(letters))

\* decodeMorse with the word separator decoded to nothing
Morse_decodeMorse_SeparatorAsEmpty(v) ==
    IF Falsy(v) \/ v.type # "string" THEN <<>>
    ELSE IF Trim(v.value) = <<"/">> THEN <<>>
    ELSE Morse_decodeLetters(
             SelectSeq(Split(CollapseWS(Trim(v.value)), " "),
                       LAMBDA l : Len(l) > 0))

\* decodeMorse of morse.js
Morse_decodeMorse(v) ==
    IF Falsy(v) \/ v.type # "string" THEN <<>>
    ELSE IF v.value = <<"/">> \/ v.value = <<" ", "/", " ">>
            \/ Trim(v.value) = <<"/">> THEN <<" ">>
    ELSE LET cleanMorse == CollapseWS(Trim(v.value))
             letters == SelectSeq(Split(cleanMorse, " "), LAMBDA l : Len(l) > 0)
         IN  Morse_decodeLetters(letters)

\* the callback of map(...) in encodeToMorse
encodeChar(char) ==
    IF char = " " THEN <<"/">>
    ELSE IF char \in DOMAIN CHAR_TO_MORSE THEN CHAR_TO_MORSE[char]
    ELSE <<>>

\* encodeToMorse with the input taken as it is, not uppercased
encodeToMorse_NoUpperCase(v) ==
    IF Falsy(v) \/ v.type # "string" THEN <<>>
    ELSE Join(SelectSeq([i \in 1..Len(v.value) |-> encodeChar(v.value[i])],
                        LAMBDA morse : Len(morse) > 0))

\* encodeToMorse
encodeToMorse(v) ==
    IF Falsy(v) \/ v.type # "string" THEN <<>>
    ELSE LET chars == toUpperCase(v.value)
         IN  Join(SelectSeq([i \in 1..Len(chars) |-> encodeChar(chars[i])],
                            LAMBDA morse : Len(morse) > 0))

\* isValidMorse with '/' left out of the character class
Morse_isValidMorse_NoSlash(v) ==
    IF Falsy(v) \/ v.type # "string" THEN FALSE
    ELSE \A i \in 1..Len(v.value) : v.value[i] \in ({".", "-"} \cup WS)

\* isValidMorse of morse.js: /^[.\-\s/]+$/
Morse_isValidMorse(v) ==
    IF Falsy(v) \/ v.type # "string" THEN FALSE
    ELSE \A i \in 1..Len(v.value) : v.value[i] \in ({".", "-", "/"} \cup WS)

-----------------------------------------------------------------------------
(* Line interpreter: handleDataLine *)

SPACE == <<"S", "P", "A", "C", "E">>
WORD_END == <<"W", "O", "R", "D", "_", "E", "N", "D">>
LETTER == <<"L", "E", "T", "T", "E", "R">>
LETTER_END == <<"L", "E", "T", "T", "E", "R", "_", "E", "N", "D">>
BLINK_PREFIX == <<"B", "L", "I", "N", "K", ":">>
MORSE_PREFIX == <<"M", "O", "R", "S", "E", ":">>

\* line === '/' || line === 'SPACE' || line === 'WORD_END'
isWordBreak(line) == line \in {<<"/">>, SPACE, WORD_END}

\* line === '|' || line === 'LETTER' || line === 'LETTER_END'
isLetterBreak(line) == line \in {<<"|">>, LETTER, LETTER_END}

\* line.match(/^[.\-]+$/)
isDotDash(line) ==
    line # <<>> /\ \A i \in 1..Len(line) : line[i] \in {".", "-"}

\* line.startsWith('BLINK:') || line.startsWith('MORSE:')
isTagged(line) == StartsWith(line, BLINK_PREFIX) \/ StartsWith(line, MORSE_PREFIX)

\* if (decoded && decoded !== '?') decodedText += decoded
appendDecoded(text, decoded) ==
    IF decoded # <<>> /\ decoded # <<"?">> THEN text \o decoded ELSE text

\* if (currentBuilding) { decode it and append under the guard }
finalizeBuilding(text, building) ==
    IF building # <<>> THEN appendDecoded(text, decodeMorse(building)) ELSE text

\* wordBreak with the space appended only after a pending pattern
wordBreak_SpaceAfterPatternOnly(text, building) ==
    [decodedText |-> IF building # <<>>
                     THEN finalizeBuilding(text, building) \o <<" ">>
                     ELSE text,
     currentBuilding |-> <<>>]

\* the word-separator branch
wordBreak(text, building) ==
    [decodedText |-> finalizeBuilding(text, building) \o <<" ">>,
     currentBuilding |-> <<>>]

\* letterBreak with the '?' guard left out
letterBreak_Unguarded(text, building) ==
    [decodedText |-> text \o decodeMorse(building),
     currentBuilding |-> <<>>]

\* the letter-separator branch
letterBreak(text, building) ==
    [decodedText |-> finalizeBuilding(text, building),
     currentBuilding |-> <<>>]

\* the complete-sequence branch
completeLine(line, text) ==
    [decodedText |-> appendDecoded(text, decodeMorse(line)),
     currentBuilding |-> line]

\* line.split(':')[1]?.trim()
taggedPayload(line) ==
    LET parts == Split(line, ":")
    IN  IF Len(parts) >= 2 THEN Trim(parts[2]) ELSE <<>>

\* line.match(/([.\-\s/]+)/)[1]: the leftmost maximal run of the class
firstMorseRun(line) ==
    LET cls == {".", "-", "/"} \cup WS
        from == CHOOSE k \in 1..Len(line) :
                    line[k] \in cls /\ \A j \in 1..(k - 1) : line[j] \notin cls
        to == CHOOSE k \in from..Len(line) :
                  /\ \A j \in from..k : line[j] \in cls
                  /\ (k = Len(line) \/ line[k + 1] \notin cls)
    IN  SubSeq(line, from, to)

\* rawData showing every raw line as the building pattern
rawData_ShowsEveryLine(line, building) == line

\* the raw-data branch: the value of currentBuilding after it
rawData(line, building) ==
    IF Includes(line, ".") \/ Includes(line, "-")
    THEN Trim(firstMorseRun(line))
    ELSE building

\* handleDataLine with the partial-pattern test ahead of isValidMorse
handleDataLine_PartialFirst(line, text, building) ==
    IF isWordBreak(line) THEN wordBreak(text, building)
    ELSE IF isLetterBreak(line) THEN letterBreak(text, building)
    ELSE IF isDotDash(line) THEN [decodedText |-> text, currentBuilding |-> line]
    ELSE IF isValidMorse(line) THEN completeLine(line, text)
    ELSE IF isTagged(line)
         THEN [decodedText |-> text,
               currentBuilding |-> IF taggedPayload(line) # <<>>
                                   THEN taggedPayload(line) ELSE building]
    ELSE [decodedText |-> text, currentBuilding |-> rawData(line, building)]

\* the branches of handleDataLine, first match wins
handleDataLine(line, text, building) ==
    IF isWordBreak(line) THEN wordBreak(text, building)
    ELSE IF isLetterBreak(line) THEN letterBreak(text, building)
    ELSE IF isValidMorse(line) THEN completeLine(line, text)
    ELSE IF isDotDash(line) THEN [decodedText |-> text, currentBuilding |-> line]
    ELSE IF isTagged(line)
         THEN [decodedText |-> text,
               currentBuilding |-> IF taggedPayload(line) # <<>>
                                   THEN taggedPayload(line) ELSE building]
    ELSE [decodedText |-> text, currentBuilding |-> rawData(line, building)]

\* settings.autoSave && decodedText.length > 0 && decodedText.length % 10 === 0
autoSaveDue(enabled, text) ==
    enabled /\ Len(text) > 0 /\ Len(text) % 10 = 0

\* handleDataLine(line): the whole handler on state s
handleLine(s, line) ==
    IF line = <<>> THEN s
    ELSE LET r == handleDataLine(line, s.decodedText, s.currentBuilding)
         IN  [s EXCEPT
                !.decodedText = r.decodedText,
                !.currentBuilding = r.currentBuilding,
                !.saveCalls = IF autoSaveDue(s.autoSave, r.decodedText)
                              THEN @ + 1 ELSE @,
                !.crossings = @ + (Len(r.decodedText) \div 10)
                                - (Len(s.decodedText) \div 10),
                !.fed = Append(@, line)]

\* handleDataLine called for each line of lines, in order
RECURSIVE handleLines(_, _)
handleLines(s, lines) ==
    IF lines = <<>> THEN s
    ELSE handleLines(handleLine(s, Head(lines)), Tail(lines))

clearCurrentMessage_KeepsBuilding(s, ok) ==
    IF s.decodedText # <<>> /\ ~ ok THEN s
    ELSE [s EXCEPT !.decodedText = <<>>]

\* clearCurrentMessage; ok is the answer to confirm('Clear current message?')
clearCurrentMessage(s, ok) ==
    IF s.decodedText # <<>> /\ ~ ok THEN s
    ELSE [s EXCEPT !.decodedText = <<>>, !.currentBuilding = <<>>]

-----------------------------------------------------------------------------
(* Manual entry: addManualInput *)

\* String.prototype.split(/\s+/) on a trimmed string
SplitWS(s) == Split(CollapseWS(s), " ")

\* addManualToken with the word gap of a '/' token left out
addManualToken_DropsWordGap(token) ==
    IF token = SPACE THEN <<" ">>
    ELSE IF token # <<"/">> /\ isValidMorse(token) THEN decodeMorse(token)
    ELSE <<>>

\* the body of for (const token of tokens): what the token adds to addedText
addManualToken(token) ==
    IF token = <<"/">> \/ token = SPACE THEN <<" ">>
    ELSE IF isValidMorse(token) THEN decodeMorse(token)
    ELSE <<>>

RECURSIVE addManualTokens(_)
addManualTokens(tokens) ==
    IF tokens = <<>> THEN <<>>
    ELSE addManualToken(Head(tokens)) \o addManualTokens(Tail(tokens))

\* addManualInput() with text in the manual box
addManualInput_ReplacesText(s, text) ==
    LET manualText == Trim(text)
        addedText == addManualTokens(SplitWS(manualText))
    IN  IF manualText = <<>> THEN s
        ELSE [s EXCEPT
                !.decodedText = IF addedText # <<>> THEN addedText ELSE @,
                !.call = [fn |-> "addManualInput", arg |-> text, ret |-> addedText]]

\* addManualInput on the text of the manual box
addManualInput(s, text) ==
    LET manualText == Trim(text)
        addedText == addManualTokens(SplitWS(manualText))
    IN  IF manualText = <<>> THEN s
        ELSE [s EXCEPT
                !.decodedText = IF addedText # <<>> THEN @ \o addedText ELSE @,
                !.call = [fn |-> "addManualInput", arg |-> text, ret |-> addedText]]

-----------------------------------------------------------------------------
(* Transport adapters: line splitting *)

\* the trimmed non-empty ones among lines, in order
trimmedNonEmpty(lines) ==
    SelectSeq([i \in 1..Len(lines) |-> Trim(lines[i])], LAMBDA l : l # <<>>)

\* transform splitting each chunk on its own, the held partial line forgotten
transform_ForgetsPartialLine(chunks, chunk) ==
    LET lines == Split(chunk, "\n")
    IN  [chunks |-> Last(lines),
         lines |-> trimmedNonEmpty(SubSeq(lines, 1, Len(lines) - 1))]

\* LineBreakTransformer.transform: the new buffer and the lines enqueued
transform(chunks, chunk) ==
    LET lines == Split(chunks \o chunk, "\n")
    IN  [chunks |-> Last(lines),
         lines |-> trimmedNonEmpty(SubSeq(lines, 1, Len(lines) - 1))]

flush_DropsPartialLine(chunks) == <<>>

\* LineBreakTransformer.flush: the lines enqueued when the stream closes
flush(chunks) == trimmedNonEmpty(<<chunks>>)

\* handleBluetoothData: the lines passed to handleDataLine for one payload
bluetoothLines(data) == trimmedNonEmpty(Split(data, "\n"))

-----------------------------------------------------------------------------
(* Lines the device side can deliver *)

Lines ==
    { <<".">>, <<"-">>,
      <<".", ".", "-", "-">>,                  \* no such letter
      <<".", " ", ".", ".", "-", "-">>,        \* two tokens, the second unknown
      <<"/">>, SPACE, WORD_END,
      <<"|">>, LETTER, LETTER_END,
      BLINK_PREFIX \o <<".", "-">>,
      MORSE_PREFIX \o <<".", "-", ":", "-">>,   \* a payload with a colon in it
      BLINK_PREFIX,                            \* an empty payload
      <<"T", "E", "S", "T", "_", "O", "K">>,
      <<"R", "X", ".", "-">>,
      <<"A", ".", "B", ".", "-">> }            \* two runs of Morse characters

SaveLines ==
    { <<".">>, <<".", " ", ".", " ", ".">>, <<"/">>, <<"P", "O", "N", "G">> }

\* pieces of device text as a read or a notification can deliver them
Chunks ==
    { <<".">>, <<"-">>, <<"\n">>, <<".", "\n">>, <<"-", "\n">>, <<"/", "\n">>,
      <<".", "\n", "-">>, <<" ", ".", " ", "\n">> }

NoProc == [op |-> "idle", pc |-> "idle", dev |-> 0]

NoMark == <<>>

NoCall == [fn |-> "none"]

\* the device before setup(): the globals as declared, nothing sent
PoweredOff ==
    [sketch |-> "off", now |-> 0, blinkStart |-> 0, lastEdge |-> 0,
     inBlink |-> FALSE, morseBuffer |-> <<>>, wordTokenSent |-> FALSE,
     gapTokens |-> 0, passes |-> 0, tx |-> <<>>]

\* localStorage of a profile that has not opened the page before; session is
\* the deviceConnected and connectionType of the eyeblink_session_v2 entry
EmptyStorage ==
    [device_connected |-> "unset", connection_type |-> "unset",
     session |-> [deviceConnected |-> FALSE, connectionType |-> "unset"]]

\* the page after DOMContentLoaded: nothing connected, Connect enabled
Init ==
    /\ serialPort = 0
    /\ bluetoothDevice = 0
    /\ bluetoothCharacteristic = 0
    /\ reader = 0
    /\ keepReading = FALSE
    /\ currentBuilding = <<>>
    /\ decodedText = <<>>
    /\ isConnected = FALSE
    /\ connectionType = "none"
    /\ connectDisabled = FALSE
    /\ autoSave \in BOOLEAN
    /\ autoTimer \in BOOLEAN
    /\ platform \in {"serial", "bluetooth"}
    /\ uuidDefined \in BOOLEAN
    /\ portOpen = [d \in Devices |-> FALSE]
    /\ loopState = [d \in Devices |-> "none"]
    /\ lineBuf = [d \in Devices |-> <<>>]
    /\ gattConnected = [d \in Devices |-> FALSE]
    /\ notifying = [d \in Devices |-> FALSE]
    /\ listening = [d \in Devices |-> FALSE]
    /\ discListener = [d \in Devices |-> FALSE]
    /\ procs = [i \in 1..MaxProcs |-> NoProc]
    /\ saveCalls = 0
    /\ crossings = 0
    /\ fed = <<>>
    /\ sent = <<>>
    /\ btFed = <<>>
    /\ streamClosed = FALSE
    /\ atDisconnect = NoMark
    /\ call = NoCall
    /\ localStorage = EmptyStorage
    /\ firmware = PoweredOff

\* the interpreter driven line by line
FeedLine ==
    \E line \in Lines :
        /\ Len(fed) < MaxFed
        /\ Becomes(handleLine(Cur, line))

\* the page on a desktop browser with no auto-connect pending: settings the
\* interpreter does not read, fixed where only handleDataLine is driven
InitLines == Init /\ platform = "serial" /\ ~ autoTimer /\ ~ uuidDefined

SpecLines == InitLines /\ [][FeedLine]_vars

FeedSaveLine ==
    \E line \in SaveLines :
        /\ Len(fed) < MaxSaveFed
        /\ Becomes(handleLine(Cur, line))

SpecSave == InitLines /\ [][FeedSaveLine]_vars

\* one chunk of device text reaches the serial pipeline (transformer, read loop)
\* and, as a notification payload, handleBluetoothData
DeliverChunk ==
    \E chunk \in Chunks :
        /\ Len(sent) < MaxChunks
        /\ ~ streamClosed
        /\ LET t == transform(lineBuf[1], chunk)
           IN  Becomes([handleLines(Cur, t.lines) EXCEPT
                          !.lineBuf[1] = t.chunks,
                          !.sent = Append(@, chunk),
                          !.btFed = @ \o bluetoothLines(chunk)])

\* the serial stream closes: flush emits the held partial line
CloseStream ==
    /\ ~ streamClosed
    /\ Becomes([handleLines(Cur, flush(lineBuf[1])) EXCEPT
                  !.lineBuf[1] = <<>>,
                  !.streamClosed = TRUE])

SpecChunks == InitLines /\ [][DeliverChunk \/ CloseStream]_vars

\* what the user can have in the manual box when pressing Send
ManualInputs ==
    { <<".", "-", " ", "/", " ", "-", ".", ".", ".">>,
      <<".", "-">>,
      <<"/">>,
      <<" ", ".", " ", " ", "-", " ">>,
      <<".", " ">> \o SPACE \o <<" ", ".">>,
      <<".", ".", "-", "-">>,
      <<"A", "B", " ", ".", "-">>,
      <<" ", " ">> }

\* device lines arriving between manual entries
ManualLines == { BLINK_PREFIX \o <<".", "-">>, <<"-">>, <<"/">> }

FeedManualLine ==
    \E line \in ManualLines :
        /\ Len(fed) < MaxManualFed
        /\ Becomes(handleLine(Cur, line))

\* the Send button of the manual box
ManualEntry ==
    \E text \in ManualInputs :
        /\ Len(decodedText) < MaxManualText
        /\ Becomes(addManualInput(Cur, text))

\* the clear button: confirm() is shown when decodedText is not empty
ClickClear ==
    \E ok \in BOOLEAN :
        /\ decodedText # <<>> \/ currentBuilding # <<>>
        /\ Becomes(clearCurrentMessage(Cur, ok))

SpecManual == InitLines /\ [][FeedManualLine \/ ManualEntry]_vars

-----------------------------------------------------------------------------
(* The device sketches: loop() of the dual Bluetooth sketch and of the SPP
   sketch. gapTokens and passes are history: the '/' lines sent since the last
   blink began, and the passes of loop() made *)

DOT_TH == 300
CHAR_GAP == 2000
WORD_GAP == 5000

Sketches == {"dual", "spp"}
Eye == {"LOW", "HIGH"}
\* milliseconds between two readings of millis() in loop()
TickMs == {200, 2600}
Commands == {<<"T", "E", "S", "T">>, <<"R", "E", "S", "E", "T">>,
             <<"S", "T", "A", "T", "U", "S">>, <<"P", "I", "N", "G">>}

\* sendData / BT.println to a connected client
sendData(f, data) == [f EXCEPT !.tx = Append(@, data)]

\* blink starts
blinkStarts(f, eye) ==
    IF ~ f.inBlink /\ eye = "LOW"
    THEN [f EXCEPT !.inBlink = TRUE, !.blinkStart = f.now,
                   !.wordTokenSent = FALSE, !.gapTokens = 0]
    ELSE f

\* blink ends: a dot or a dash joins morseBuffer
blinkEnds(f, eye) ==
    IF f.inBlink /\ eye = "HIGH"
    THEN [f EXCEPT !.inBlink = FALSE, !.lastEdge = f.now,
                   !.morseBuffer = Append(@, IF f.now - f.blinkStart < DOT_TH
                                             THEN "." ELSE "-")]
    ELSE f

\* character complete: the pattern is sent as a line
characterComplete(f) ==
    IF ~ f.inBlink /\ Len(f.morseBuffer) > 0 /\ f.now - f.lastEdge > CHAR_GAP
    THEN [sendData(f, f.morseBuffer) EXCEPT
            !.morseBuffer = <<>>, !.lastEdge = f.now, !.wordTokenSent = FALSE]
    ELSE f

\* word gap: the '/' token; only the dual sketch tests lastEdge > 0
wordGap(f) ==
    IF /\ ~ f.inBlink /\ Len(f.morseBuffer) = 0
       /\ f.now - f.lastEdge > WORD_GAP
       /\ f.sketch = "dual" => f.lastEdge > 0
       /\ ~ f.wordTokenSent
    THEN [sendData(f, <<"/">>) EXCEPT !.wordTokenSent = TRUE, !.gapTokens = @ + 1]
    ELSE f

\* one pass of loop() reading the sensor as eye at time now
loop(f, eye, now) ==
    wordGap(characterComplete(blinkEnds(blinkStarts(
        [f EXCEPT !.now = now, !.passes = @ + 1], eye), eye)))

\* processCommand of the dual sketch
processCommand(f, command) ==
    IF command = <<"T", "E", "S", "T">>
    THEN sendData(f, <<"T", "E", "S", "T", "_", "O", "K">>)
    ELSE IF command = <<"R", "E", "S", "E", "T">>
    THEN sendData([f EXCEPT !.morseBuffer = <<>>, !.lastEdge = 0,
                            !.wordTokenSent = FALSE],
                  <<"R", "E", "S", "E", "T", "_", "O", "K">>)
    ELSE IF command = <<"S", "T", "A", "T", "U", "S">>
    THEN sendData(f, <<"S", "T", "A", "T", "U", "S", "_", "R", "E", "A", "D", "Y">>)
    ELSE IF command = <<"P", "I", "N", "G">>
    THEN sendData(f, <<"P", "O", "N", "G">>)
    ELSE f

\* a sketch is flashed and setup() has run
Setup ==
    \E sketch \in Sketches :
        /\ firmware.sketch = "off"
        /\ Becomes([Cur EXCEPT !.firmware.sketch = sketch])

Loop ==
    \E eye \in Eye, dt \in TickMs :
        /\ firmware.sketch # "off"
        /\ firmware.passes < MaxPasses
        /\ Len(firmware.tx) < MaxTx
        /\ eye = "LOW" => Len(firmware.morseBuffer) < MaxBlinks
        /\ Becomes([Cur EXCEPT !.firmware = loop(@, eye, firmware.now + dt)])

\* a command line arrives from the client (read at the top of loop())
Command ==
    \E command \in Commands :
        /\ firmware.sketch = "dual"
        /\ Len(firmware.tx) < MaxTx
        /\ Becomes([Cur EXCEPT !.firmware = processCommand(@, command)])

InitFirmware == InitLines /\ autoSave

SpecFirmware == InitFirmware /\ [][Setup \/ Loop \/ Command]_vars

\* the tokens of the table of morse.js other than the bare '/'
TableTokens ==
    { MORSE_CODE_ENTRIES[k][1] : k \in 1..Len(MORSE_CODE_ENTRIES) } \ {<<"/">>}

\* the device sends a token of the table as a line of its own
FeedToken ==
    \E token \in TableTokens :
        /\ Len(fed) < MaxTableFed
        /\ Becomes(handleLine(Cur, token))

SpecTable == InitLines /\ [][FeedToken]_vars

\* device lines, manual entries and the clear button on one page
SpecText == InitLines /\ [][FeedManualLine \/ ManualEntry \/ ClickClear]_vars

-----------------------------------------------------------------------------
(* Calls of the codec functions of morse.js. The functions keep no state,  *)
(* so each behaviour makes one call.                                        *)

\* the strings over alphabet of length up to n
RECURSIVE StringsUpTo(_, _)
StringsUpTo(alphabet, n) ==
    IF n = 0 THEN {<<>>}
    ELSE LET shorter == StringsUpTo(alphabet, n - 1)
         IN  shorter \cup {Append(t, c) : t \in shorter, c \in alphabet}

NonStrings == {Null, Num(0), Num(5)}

DecodeInputs ==
    {Str(t) : t \in StringsUpTo({".", "-", " ", "/"}, MaxCodecLen)} \cup NonStrings

EncodeInputs ==
    {Str(t) : t \in StringsUpTo({"a", "S", "1", " ", "?", "#", SHARP_S}, MaxCodecLen)}
    \cup NonStrings

ValidInputs ==
    {Str(t) : t \in StringsUpTo({".", "-", "/", " ", "\n", "a"}, MaxCodecLen)}
    \cup NonStrings

\* the state after fn(arg) returned ret
Called(fn, arg, ret) == [Cur EXCEPT !.call = [fn |-> fn, arg |-> arg, ret |-> ret]]

CallDecode ==
    \E v \in DecodeInputs :
        /\ call = NoCall
        /\ Becomes(Called("decodeMorse", v, Morse_decodeMorse(v)))

CallEncode ==
    \E v \in EncodeInputs :
        /\ call = NoCall
        /\ Becomes(Called("encodeToMorse", v, encodeToMorse(v)))

CallIsValid ==
    \E v \in ValidInputs :
        /\ call = NoCall
        /\ Becomes(Called("isValidMorse", v, Morse_isValidMorse(v)))

\* isValidMorse of communication.js, which its callers pass strings
CallIsValidFallback ==
    \E v \in ValidInputs :
        /\ v.type = "string"
        /\ call = NoCall
        /\ Becomes(Called("isValidMorse (communication.js)", v,
                          isValidMorse(v.value)))

\* a character of the table is encoded and the result decoded
CallRoundTrip ==
    \E t \in DOMAIN MORSE_CODE :
        /\ call = NoCall
        /\ Becomes(Called("roundTrip", t,
                          Morse_decodeMorse(Str(encodeToMorse(Str(<<MORSE_CODE[t]>>))))))

SpecCodec ==
    InitLines /\ [][CallDecode \/ CallEncode \/ CallIsValid
                     \/ CallIsValidFallback \/ CallRoundTrip]_vars

-----------------------------------------------------------------------------
(* Connection handling: the handlers as functions from state to state.      *)
(* An async function runs from one await to the next in one step; while it  *)
(* is suspended it occupies a slot of procs.                                *)

freeSlot(s) == \E i \in 1..MaxProcs : s.procs[i].op = "idle"

firstFree(s) ==
    CHOOSE i \in 1..MaxProcs :
        s.procs[i].op = "idle" /\ \A j \in 1..(i - 1) : s.procs[j].op # "idle"

suspend(s, i, op, pc, dev) ==
    [s EXCEPT !.procs[i] = [op |-> op, pc |-> pc, dev |-> dev]]

finish(s, i) == [s EXCEPT !.procs[i] = NoProc]

\* updateConnectionStatus: the buttons follow isConnected
updateConnectionStatus(s) == [s EXCEPT !.connectDisabled = s.isConnected]

\* updateSessionConnection(connected), after connectionType was assigned
updateSessionConnection(s, flag) ==
    [s EXCEPT !.localStorage.session =
                 [deviceConnected |-> flag, connectionType |-> s.connectionType]]

\* the catch blocks of connectBluetooth and connectSerial
connectFailed(s) ==
    updateConnectionStatus([s EXCEPT !.isConnected = FALSE,
                                     !.connectionType = "none",
                                     !.localStorage.device_connected = "false"])

\* the success path assignments shared by connectBluetooth and connectSerial
connected(s, type) ==
    updateSessionConnection(
        updateConnectionStatus([s EXCEPT !.isConnected = TRUE,
                                         !.connectionType = type,
                                         !.atDisconnect = NoMark,
                                         !.localStorage.device_connected = "true",
                                         !.localStorage.connection_type = type]),
        TRUE)

\* handleBluetoothDisconnection
handleBluetoothDisconnection(s) ==
    updateSessionConnection(
        updateConnectionStatus([s EXCEPT !.isConnected = FALSE,
                                         !.connectionType = "none",
                                         !.bluetoothDevice = 0,
                                         !.bluetoothCharacteristic = 0,
                                         !.localStorage.device_connected = "false"]),
        FALSE)

\* the GATT link of device d goes down (gatt.disconnect() or the peer):
\* notifications end and the gattserverdisconnected listener runs
gattDisconnect(s, d) ==
    LET s1 == [s EXCEPT !.gattConnected[d] = FALSE, !.notifying[d] = FALSE]
    IN  IF s.discListener[d] THEN handleBluetoothDisconnection(s1) ELSE s1

disconnectTail_ClearsText(s) ==
    updateSessionConnection(
        updateConnectionStatus([s EXCEPT !.isConnected = FALSE,
                                         !.connectionType = "none",
                                         !.decodedText = <<>>,
                                         !.currentBuilding = <<>>,
                                         !.localStorage.device_connected = "false",
                                         !.localStorage.connection_type = "unset"]),
        FALSE)

\* the end of disconnectDevice, after either branch
disconnectTail(s) ==
    updateSessionConnection(
        updateConnectionStatus([s EXCEPT !.isConnected = FALSE,
                                         !.connectionType = "none",
                                         !.localStorage.device_connected = "false",
                                         !.localStorage.connection_type = "unset"]),
        FALSE)

\* history: remember how many lines were handled at the disconnect request
markDisconnect(s) ==
    IF s.atDisconnect = NoMark
    THEN [s EXCEPT !.atDisconnect = <<Len(s.fed)>>]
    ELSE s

\* reader.cancel() is accepted while the reader holds a readable stream: the
\* pending read completes with done, the loop releases the lock and ends, and
\* the partial line in the transformer is dropped. A released or errored
\* reader rejects the call.
cancel(s, i) ==
    LET p == s.reader
    IN  IF s.loopState[p] \in {"reading", "stopped"}
        THEN suspend([s EXCEPT
                        !.loopState[p] = IF @ = "reading" THEN "released" ELSE @,
                        !.lineBuf[p] = <<>>],
                     i, "disconnectDevice", "cancel", p)
        ELSE suspend(s, i, "disconnectDevice", "cancelRejected", p)

\* disconnectDevice from its call to its first await (or to its end)
disconnectDevice(s, i) ==
    LET s0 == markDisconnect([s EXCEPT !.keepReading = FALSE])
    IN  IF s0.connectionType = "bluetooth" /\ s0.bluetoothDevice # 0
        THEN IF s0.bluetoothCharacteristic # 0
             THEN suspend(s0, i, "disconnectDevice", "stopNotifications",
                          s0.bluetoothCharacteristic)
             ELSE LET s1 == IF s0.gattConnected[s0.bluetoothDevice]
                            THEN gattDisconnect(s0, s0.bluetoothDevice) ELSE s0
                  IN  finish(disconnectTail([s1 EXCEPT
                                               !.bluetoothDevice = 0,
                                               !.bluetoothCharacteristic = 0]), i)
        ELSE IF s0.connectionType = "serial" /\ s0.serialPort # 0
        THEN IF s0.reader # 0
             THEN cancel(s0, i)
             ELSE suspend(s0, i, "disconnectDevice", "close", s0.serialPort)
        ELSE finish(disconnectTail(s0), i)

\* disconnectDevice after await stopNotifications(): ok, or the catch block
afterStopNotifications(s, i, ok) ==
    LET dev == s.procs[i].dev
        s1 == IF ~ ok THEN s
              ELSE LET a == [s EXCEPT !.notifying[dev] = FALSE]
                   IN  IF a.bluetoothCharacteristic = 0 THEN a
                       ELSE LET b == [a EXCEPT
                                        !.listening[a.bluetoothCharacteristic] = FALSE]
                            IN  IF b.bluetoothDevice # 0
                                   /\ b.gattConnected[b.bluetoothDevice]
                                THEN gattDisconnect(b, b.bluetoothDevice)
                                ELSE b
    IN  finish(disconnectTail([s1 EXCEPT !.bluetoothDevice = 0,
                                         !.bluetoothCharacteristic = 0]), i)

\* disconnectDevice after await reader.cancel()
afterCancel(s, i) ==
    IF s.procs[i].pc = "cancel"
    THEN LET s1 == [s EXCEPT !.reader = 0]
         IN  IF s1.serialPort = 0
             THEN finish(disconnectTail(s1), i)
             ELSE suspend(s1, i, "disconnectDevice", "close", s1.serialPort)
    ELSE finish(disconnectTail([s EXCEPT !.serialPort = 0]), i)

\* disconnectDevice after await serialPort.close(): ok, or the catch block
afterClose(s, i, ok) ==
    LET p == s.procs[i].dev
        s1 == IF ok THEN [s EXCEPT !.portOpen[p] = FALSE] ELSE s
    IN  finish(disconnectTail([s1 EXCEPT !.serialPort = 0]), i)

\* readSerialData up to its first await reader.read()
readSerialData(s, i) ==
    IF s.serialPort = 0 THEN finish(s, i)
    ELSE LET p == s.serialPort
         IN  IF s.portOpen[p] /\ s.loopState[p] = "none"
             THEN finish([s EXCEPT !.reader = p, !.loopState[p] = "reading"], i)
             ELSE \* readable is null or locked: TypeError, the catch block
                  IF s.isConnected THEN disconnectDevice(s, i) ELSE finish(s, i)

\* connectSerial after await serialPort.open() resolved for port p
afterOpen(s, i) ==
    LET p == s.procs[i].dev
        s1 == [s EXCEPT !.portOpen[p] = TRUE,
                        !.loopState[p] = "none",
                        !.lineBuf[p] = <<>>]
    IN  readSerialData([connected(s1, "serial") EXCEPT !.keepReading = TRUE], i)

\* connectBluetooth after await startNotifications() resolved
afterStartNotifications(s, i) ==
    LET d == s.procs[i].dev
        s1 == [s EXCEPT !.notifying[d] = TRUE]
    IN  IF s1.bluetoothCharacteristic = 0
        THEN finish(connectFailed(s1), i)
        ELSE LET s2 == [s1 EXCEPT !.listening[s1.bluetoothCharacteristic] = TRUE]
             IN  IF s2.bluetoothDevice = 0
                 THEN finish(connectFailed(s2), i)
                 ELSE finish(connected([s2 EXCEPT
                                          !.discListener[s2.bluetoothDevice] = TRUE],
                                       "bluetooth"), i)

\* what a peer exposes: for the custom service (BLUETOOTH_SERVICE_UUID) and
\* the generic serial service (0000ffe0), "absent" or the set of the two
\* characteristics (BLUETOOTH_CHARACTERISTIC_UUID, 0000ffe1) it holds
Pairs == {"primary", "fallback"}
Absent == {"absent"}
Peers == [Pairs -> {Absent} \cup (SUBSET Pairs)]

\* the nested try blocks of getPrimaryService: custom service first
serviceFound(peer) ==
    IF peer["primary"] # Absent THEN "primary"
    ELSE IF peer["fallback"] # Absent THEN "fallback"
    ELSE "none"

\* the nested try blocks of getCharacteristic on the service found
characteristicFound(peer) ==
    IF serviceFound(peer) = "none" THEN "none"
    ELSE LET held == peer[serviceFound(peer)]
         IN  IF "primary" \in held THEN "primary"
             ELSE IF "fallback" \in held THEN "fallback"
             ELSE "none"

\* one peer for each characteristic the lookups can end on: the statements
\* after the lookups read nothing else of the peer
PeerKinds ==
    {peer \in Peers :
        peer = CHOOSE q \in Peers :
                   characteristicFound(q) = characteristicFound(peer)}

\* connectBluetooth after await gatt.connect(), up to await startNotifications()
\* or to the catch block ('No compatible service / characteristic')
discover(s, i, peer) ==
    IF characteristicFound(peer) = "none"
    THEN finish(connectFailed(s), i)
    ELSE suspend([s EXCEPT !.bluetoothCharacteristic = s.procs[i].dev],
                 i, "connectBluetooth", "startNotifications", s.procs[i].dev)

\* connectBluetooth up to await requestDevice(); the options object reads
\* BLUETOOTH_SERVICE_UUID, a ReferenceError when no script defines it
connectBluetooth(s, i) ==
    IF ~ s.uuidDefined THEN finish(connectFailed(s), i)
    ELSE suspend(s, i, "connectBluetooth", "requestDevice", 0)

\* connectSerial up to await requestPort()
connectSerial(s, i) == suspend(s, i, "connectSerial", "requestPort", 0)

\* connectDevice
connectDevice(s, i) ==
    IF s.platform = "bluetooth" THEN connectBluetooth(s, i) ELSE connectSerial(s, i)

\* the read loop of port p receives the lines of one chunk: every line while
\* keepReading holds, otherwise the pending read delivers one line and the
\* loop condition ends the loop
readLoop(s, p, lines) ==
    IF s.keepReading \/ lines = <<>>
    THEN handleLines(s, lines)
    ELSE [handleLine(s, Head(lines)) EXCEPT !.loopState[p] = "stopped"]

-----------------------------------------------------------------------------
(* Session actions *)

SerialChunks == { <<".", "\n", "/", "\n">>, <<".">> }

Payloads == { <<".">>, <<".", "\n", "/">> }

ClickConnect ==
    /\ ~ connectDisabled
    /\ freeSlot(Cur)
    /\ Becomes(connectDevice(Cur, firstFree(Cur)))

\* the timeout of initializePage: confirm(), then connectDevice() on OK
AutoConnect ==
    /\ autoTimer
    /\ \E ok \in BOOLEAN :
          IF ok
          THEN /\ freeSlot(Cur)
               /\ Becomes(connectDevice([Cur EXCEPT !.autoTimer = FALSE],
                                    firstFree(Cur)))
          ELSE Becomes([Cur EXCEPT !.autoTimer = FALSE])

ClickDisconnect ==
    /\ connectDisabled
    /\ freeSlot(Cur)
    /\ Becomes(disconnectDevice(Cur, firstFree(Cur)))

\* requestPort resolves with the user's choice
PortChosen ==
    \E i \in 1..MaxProcs, d \in Devices :
        /\ procs[i].pc = "requestPort"
        /\ Becomes(suspend([Cur EXCEPT !.serialPort = d],
                       i, "connectSerial", "open", d))

\* requestDevice resolves with the user's choice
DeviceChosen ==
    \E i \in 1..MaxProcs, d \in Devices :
        /\ procs[i].pc = "requestDevice"
        /\ Becomes(suspend([Cur EXCEPT !.bluetoothDevice = d],
                       i, "connectBluetooth", "gattConnect", d))

ChooserResolves == PortChosen \/ DeviceChosen

OpenResolves ==
    \E i \in 1..MaxProcs :
        /\ procs[i].pc = "open"
        /\ ~ portOpen[procs[i].dev]
        /\ Becomes(afterOpen(Cur, i))

GattConnectResolves ==
    \E i \in 1..MaxProcs :
        /\ procs[i].pc = "gattConnect"
        /\ Becomes(suspend([Cur EXCEPT !.gattConnected[procs[i].dev] = TRUE],
                       i, "connectBluetooth", "discover", procs[i].dev))

\* getPrimaryService and getCharacteristic settle for what the peer exposes
DiscoverResolves ==
    \E i \in 1..MaxProcs, peer \in PeerKinds :
        /\ procs[i].pc = "discover"
        /\ gattConnected[procs[i].dev]
        /\ Becomes(discover(Cur, i, peer))

StartNotificationsResolves ==
    \E i \in 1..MaxProcs :
        /\ procs[i].pc = "startNotifications"
        /\ gattConnected[procs[i].dev]
        /\ Becomes(afterStartNotifications(Cur, i))

\* any await of a connect call rejects: the catch block
ConnectRejects ==
    \E i \in 1..MaxProcs :
        /\ procs[i].op \in {"connectSerial", "connectBluetooth"}
        /\ Becomes(finish(connectFailed(Cur), i))

StopNotificationsSettles ==
    \E i \in 1..MaxProcs, ok \in BOOLEAN :
        /\ procs[i].pc = "stopNotifications"
        /\ ok => gattConnected[procs[i].dev]
        /\ Becomes(afterStopNotifications(Cur, i, ok))

CancelSettles ==
    \E i \in 1..MaxProcs :
        /\ procs[i].pc \in {"cancel", "cancelRejected"}
        /\ Becomes(afterCancel(Cur, i))

\* close() resolves only for an open port whose stream no loop holds
CloseSettles ==
    \E i \in 1..MaxProcs, ok \in BOOLEAN :
        /\ procs[i].pc = "close"
        /\ ok => (portOpen[procs[i].dev]
                  /\ loopState[procs[i].dev] \notin {"reading", "stopped"})
        /\ Becomes(afterClose(Cur, i, ok))

\* a characteristicvaluechanged event: handleBluetoothData
Notification ==
    \E d \in Devices, data \in Payloads :
        /\ gattConnected[d] /\ notifying[d] /\ listening[d]
        /\ Len(fed) < MaxSessionFed
        /\ Becomes(handleLines(Cur, bluetoothLines(data)))

\* the peer drops the GATT link
PeerDisconnect ==
    \E d \in Devices :
        /\ gattConnected[d]
        /\ Becomes(gattDisconnect(Cur, d))

\* a chunk arrives on an open port whose loop awaits reader.read()
SerialData ==
    \E p \in Devices, chunk \in SerialChunks :
        /\ portOpen[p] /\ loopState[p] = "reading"
        /\ Len(fed) < MaxSessionFed
        /\ LET t == transform(lineBuf[p], chunk)
           IN  /\ Len(t.chunks) <= MaxBuf
               /\ Becomes(readLoop([Cur EXCEPT !.lineBuf[p] = t.chunks], p, t.lines))

\* reader.read() rejects: the catch block of readSerialData
ReadError ==
    \E p \in Devices :
        /\ loopState[p] = "reading"
        /\ isConnected => freeSlot(Cur)
        /\ LET s1 == [Cur EXCEPT !.loopState[p] = "errored", !.lineBuf[p] = <<>>]
           IN  Becomes(IF isConnected THEN disconnectDevice(s1, firstFree(Cur)) ELSE s1)

\* the stream of port p ends: flush, the last line is read, then done
StreamDone ==
    \E p \in Devices :
        /\ loopState[p] = "reading"
        /\ Len(fed) < MaxSessionFed
        /\ LET s1 == readLoop([Cur EXCEPT !.lineBuf[p] = <<>>], p, flush(lineBuf[p]))
           IN  Becomes([s1 EXCEPT !.loopState[p] =
                                 IF @ = "reading" THEN "released" ELSE @])

NextSession ==
    \/ ClickConnect \/ AutoConnect \/ ClickDisconnect
    \/ ChooserResolves \/ OpenResolves \/ GattConnectResolves
    \/ DiscoverResolves \/ StartNotificationsResolves \/ ConnectRejects
    \/ StopNotificationsSettles \/ CancelSettles \/ CloseSettles
    \/ Notification \/ PeerDisconnect \/ SerialData \/ ReadError \/ StreamDone

\* autoSave is not read by the connection handlers; without the identifiers
\* connectBluetooth stops at its first statement, so the serial platform is
\* explored with them defined only
InitSession == Init /\ autoSave /\ (platform = "serial" => uuidDefined)

SpecSession == InitSession /\ [][NextSession]_vars

\* a desktop session: the handlers and events of the serial transport
SerialNext ==
    \/ ClickConnect \/ ClickDisconnect \/ PortChosen \/ OpenResolves
    \/ ConnectRejects \/ CancelSettles \/ CloseSettles
    \/ SerialData \/ ReadError \/ StreamDone

InitSerial == Init /\ autoSave /\ platform = "serial" /\ uuidDefined /\ ~ autoTimer

SpecSerial == InitSerial /\ [][SerialNext]_vars

\* a desktop session in which the clear button is used
SpecClear == InitSerial /\ [][SerialNext \/ ClickClear]_vars

-----------------------------------------------------------------------------
(* Properties of the line interpreter *)

WordBreakLines == {<<"/">>, SPACE, WORD_END}
LetterBreakLines == {<<"|">>, LETTER, LETTER_END}

\* the decode a break is said to append for the pattern held in currentBuilding:
\* nothing for an empty pattern, an empty decode or a decode of '?'
Finalized(building) ==
    LET d == decodeMorse(building)
    IN  IF building # <<>> /\ d # <<>> /\ d # <<"?">> THEN d ELSE <<>>

\* s is token, letter break, token, ..., token with every token in the table
IsLetterSequence(s) ==
    /\ Len(s) % 2 = 1
    /\ \A i \in 1..Len(s) :
          IF i % 2 = 1 THEN s[i] \in DOMAIN MORSE_CODE_MAP
                       ELSE s[i] \in LetterBreakLines

CharsOf(s) == [i \in 1..((Len(s) + 1) \div 2) |-> MORSE_CODE_MAP[s[2 * i - 1]]]

\* C1: from the empty state, single-token lines separated by letter breaks and
\* closed by one word break leave decodedText equal to the decoded characters,
\* each once, followed by one space ([".", "/"] gives "E ").
C1_EachTokenDecodedOnce ==
    (/\ Len(fed) >= 2
     /\ Last(fed) \in WordBreakLines
     /\ IsLetterSequence(SubSeq(fed, 1, Len(fed) - 1)))
    => decodedText = CharsOf(SubSeq(fed, 1, Len(fed) - 1)) \o <<" ">>

\* C2: decodedText never contains a '?' produced by an unknown token.
C2_NoQuestionMark ==
    \A i \in 1..Len(decodedText) : decodedText[i] # "?"

\* C3: with autoSave enabled the auto-save callback has fired exactly once for
\* every 10-character boundary decodedText.length has crossed.
C3_OneSavePerBoundary ==
    autoSave => saveCalls = crossings

\* a line that is no break marker, not valid Morse, carries no BLINK:/MORSE:
\* prefix and holds neither '.' nor '-'
IsPlainReply(line) ==
    /\ line \notin WordBreakLines \cup LetterBreakLines
    /\ \E i \in 1..Len(line) : line[i] \notin ({".", "-", "/"} \cup WS)
    /\ ~ StartsWith(line, BLINK_PREFIX)
    /\ ~ StartsWith(line, MORSE_PREFIX)
    /\ \A i \in 1..Len(line) : line[i] \notin {".", "-"}

\* C8: a line such as TEST_OK or PONG changes neither decodedText nor
\* currentBuilding.
C8_PlainReplyIgnored ==
    [][(fed' # fed /\ IsPlainReply(Last(fed')))
        => (decodedText' = decodedText /\ currentBuilding' = currentBuilding)]_vars

\* a plain reply was processed while both decoder fields were non-empty
C8_Witness ==
    /\ fed # <<>>
    /\ Last(fed) = <<"T", "E", "S", "T", "_", "O", "K">>
    /\ decodedText # <<>>
    /\ currentBuilding # <<>>

\* C9: a word-break line appends the guarded decode of currentBuilding, then
\* exactly one space, and clears currentBuilding; afterwards decodedText ends
\* with a space.
C9_WordBreak ==
    [][(fed' # fed /\ Last(fed') \in WordBreakLines)
        => (/\ decodedText' = decodedText \o Finalized(currentBuilding) \o <<" ">>
            /\ Last(decodedText') = " "
            /\ currentBuilding' = <<>>)]_vars

\* a word break finalized the pending pattern ".-" into "A "
C9_Witness ==
    /\ Len(fed) = 2
    /\ fed[1] = BLINK_PREFIX \o <<".", "-">>
    /\ fed[2] = WORD_END
    /\ decodedText = <<"A", " ">>
    /\ currentBuilding = <<>>

\* C10: a letter-break line appends the guarded decode of currentBuilding and
\* nothing else, and clears currentBuilding; with an empty currentBuilding
\* decodedText is unchanged.
C10_LetterBreak ==
    [][(fed' # fed /\ Last(fed') \in LetterBreakLines)
        => (/\ decodedText' = decodedText \o Finalized(currentBuilding)
            /\ (currentBuilding = <<>> => decodedText' = decodedText)
            /\ currentBuilding' = <<>>)]_vars

\* a letter break finalized the pending pattern ".-" into "A", without a space
C10_Witness ==
    /\ Len(fed) = 2
    /\ fed[1] = BLINK_PREFIX \o <<".", "-">>
    /\ fed[2] = LETTER
    /\ decodedText = <<"A">>
    /\ currentBuilding = <<>>

-----------------------------------------------------------------------------
(* Properties of the transport adapters *)

\* the decoder fields of a state
Decoder(s) == <<s.decodedText, s.currentBuilding>>

\* C5: for the same chunks, the serial pipeline and handleBluetoothData pass
\* the same lines to handleDataLine, so the decoder ends in the same state.
C5_SameLinesOnBothTransports ==
    streamClosed =>
        /\ fed = btFed
        /\ <<decodedText, currentBuilding>>
             = Decoder(handleLines([Cur EXCEPT !.decodedText = <<>>,
                                               !.currentBuilding = <<>>,
                                               !.fed = <<>>], btFed))

-----------------------------------------------------------------------------
(* Properties of the connection handling *)

\* a transport is active while lines can still arrive from it: a read loop
\* awaiting a read, or a connected, notifying characteristic with the listener
ActiveTransports ==
    { <<"serial", p>> : p \in { q \in Devices : loopState[q] = "reading" } }
    \cup { <<"bluetooth", d>> :
             d \in { e \in Devices :
                       gattConnected[e] /\ notifying[e] /\ listening[e] } }

\* C4: once disconnectDevice was called and until a connection is established
\* again, no further line reaches the interpreter on either transport.
C4_NoLineAfterDisconnect ==
    atDisconnect # NoMark => Len(fed) = atDisconnect[1]

\* C6: at most one transport is active at any time.
C6_AtMostOneTransport == Cardinality(ActiveTransports) <= 1

\* the steps of a disconnect: explicit (the call and each of its
\* continuations), peer-initiated, and automatic after a read error
DisconnectStep ==
    \/ ClickDisconnect \/ StopNotificationsSettles \/ CancelSettles
    \/ CloseSettles \/ PeerDisconnect \/ ReadError

\* C7: no step of a disconnect changes decodedText or currentBuilding.
C7_DisconnectKeepsText ==
    [][UNCHANGED <<decodedText, currentBuilding>> \/ ~ DisconnectStep]_vars

\* C7 witness: a disconnect ran to its end with decoded text on the page
C7_Witness ==
    /\ atDisconnect # NoMark
    /\ ~ isConnected
    /\ \A i \in 1..MaxProcs : procs[i] = NoProc
    /\ decodedText # <<>>

-----------------------------------------------------------------------------
(* Properties of manual entry *)

\* the tokens of a manual text: its maximal runs of non-whitespace characters
RECURSIVE ManualTokens(_)
ManualTokens(s) ==
    LET t == TrimStart(s)
    IN  IF t = <<>> THEN <<>>
        ELSE LET n == CHOOSE k \in 1..Len(t) :
                          /\ \A j \in 1..k : t[j] \notin WS
                          /\ (k = Len(t) \/ t[k + 1] \in WS)
             IN  <<SubSeq(t, 1, n)>> \o ManualTokens(SubSeq(t, n + 1, Len(t)))

\* every token is '/' or a token of the table
ManualCovered(text) ==
    \A i \in 1..Len(ManualTokens(text)) :
        ManualTokens(text)[i] \in DOMAIN MORSE_CODE_MAP \cup {<<"/">>}

\* token by token: a word gap for '/', the table's character otherwise
RECURSIVE ManualExpected(_)
ManualExpected(tokens) ==
    IF tokens = <<>> THEN <<>>
    ELSE (IF Head(tokens) = <<"/">> THEN <<" ">>
          ELSE <<MORSE_CODE_MAP[Head(tokens)]>>) \o ManualExpected(Tail(tokens))

ManualExample == <<".", "-", " ", "/", " ", "-", ".", ".", ".">>

\* a Send step on the manual text
ManualStep(text) ==
    Len(decodedText) < MaxManualText /\ Becomes(addManualInput(Cur, text))

\* C11 as stated: manual entry appends the token-by-token decode and leaves
\* currentBuilding alone, and ".- / -..." appends "A S".
C11_ManualEntryAppendsAS ==
    [][\A text \in ManualInputs :
          (ManualCovered(text) /\ ManualStep(text)) =>
              /\ decodedText' = decodedText \o ManualExpected(ManualTokens(text))
              /\ currentBuilding' = currentBuilding
              /\ text = ManualExample =>
                     decodedText' = decodedText \o <<"A", " ", "S">>]_vars

\* C11 amended: manual entry appends the token-by-token decode and leaves
\* currentBuilding alone, and ".- / -..." appends "A B".
C11_ManualEntry ==
    [][\A text \in ManualInputs :
          (ManualCovered(text) /\ ManualStep(text)) =>
              /\ decodedText' = decodedText \o ManualExpected(ManualTokens(text))
              /\ currentBuilding' = currentBuilding
              /\ text = ManualExample =>
                     decodedText' = decodedText \o <<"A", " ", "B">>]_vars

\* C11 witness: the example was sent while a pattern was being built
C11_Witness ==
    /\ call = [fn |-> "addManualInput", arg |-> ManualExample,
               ret |-> <<"A", " ", "B">>]
    /\ currentBuilding = <<".", "-">>
    /\ decodedText = <<"A", " ", "B">>

-----------------------------------------------------------------------------
(* Properties of line delivery *)

RECURSIVE Flatten(_)
Flatten(seqs) == IF seqs = <<>> THEN <<>> ELSE Head(seqs) \o Flatten(Tail(seqs))

\* the trimmed non-empty lines of the device text delivered so far: those
\* ended by a newline and, once the stream has closed, the last one
ArrivedLines ==
    LET parts == Split(Flatten(sent), "\n")
    IN  trimmedNonEmpty(IF streamClosed THEN parts
                        ELSE SubSeq(parts, 1, Len(parts) - 1))

\* C12: the lines handleDataLine has handled are, in order and once each, the
\* lines that have arrived, however the text was cut into chunks.
C12_LinesInArrivalOrder == fed = ArrivedLines

\* C12 witness: a line cut in two chunks was handled once, after an earlier line
C12_Witness ==
    /\ sent = << <<".", "\n", "-">>, <<".">>, <<"\n">> >>
    /\ fed = << <<".">>, <<"-", ".">> >>

-----------------------------------------------------------------------------
(* Properties of the codec of morse.js *)

\* C13: for every token t of the table decode(encode(charFor(t))) is
\* charFor(t), and the reverse table maps every character to a token that
\* decodes to it.
C13_RoundTrip ==
    /\ call.fn = "roundTrip" => call.ret = <<MORSE_CODE[call.arg]>>
    /\ \A c \in DOMAIN CHAR_TO_MORSE : MORSE_CODE[CHAR_TO_MORSE[c]] = c

\* C13 witness: the round trip of the token of '/', a punctuation entry
C13_Witness ==
    /\ call.fn = "roundTrip"
    /\ call.arg = <<"-", ".", ".", "-", ".">>
    /\ call.ret = <<"/">>

\* a non-empty string of '.', '-', whitespace and '/' only
IsMorseText(v) ==
    /\ v.type = "string"
    /\ v.value # <<>>
    /\ \A i \in 1..Len(v.value) : v.value[i] \in {".", "-", "/", " ", "\n", "\r", "\t"}

\* C14: isValidMorse(s) is true exactly when s is a non-empty string of '.',
\* '-', whitespace and '/' only (both copies of the function).
C14_IsValidMorse ==
    call.fn \in {"isValidMorse", "isValidMorse (communication.js)"} =>
        call.ret = IsMorseText(call.arg)

\* C14 witness: a string with every kind of allowed character was accepted
C14_Witness ==
    call = [fn |-> "isValidMorse", arg |-> Str(<<".", "/", "\n">>), ret |-> TRUE]

\* C15: an input whose trimmed form is '/' decodes to one space; empty and
\* non-string input decodes to the empty string.
C15_DecodeBoundaries ==
    call.fn = "decodeMorse" =>
        /\ (call.arg.type = "string" /\ Trim(call.arg.value) = <<"/">>)
               => call.ret = <<" ">>
        /\ (call.arg.type # "string" \/ call.arg.value = <<>>)
               => call.ret = <<>>

\* C15 witness: " / " was decoded to a space
C15_Witness ==
    call = [fn |-> "decodeMorse", arg |-> Str(<<" ", "/", " ">>), ret |-> <<" ">>]

\* the tokens of an encoder output
OutputTokens(ret) == IF ret = <<>> THEN <<>> ELSE Split(ret, " ")

\* output ret holds, in order, the token of every character of chars that is
\* a space or has a reverse-table entry, and nothing else
EncodesEach(chars, ret) ==
    LET kept == SelectSeq(chars, LAMBDA c : c = " " \/ c \in DOMAIN CHAR_TO_MORSE)
        toks == OutputTokens(ret)
    IN  /\ Len(toks) = Len(kept)
        /\ \A i \in 1..Len(kept) :
               toks[i] = IF kept[i] = " " THEN <<"/">> ELSE CHAR_TO_MORSE[kept[i]]

\* the input with each character replaced by its upper-case character, where
\* it has one
UpperCharByChar(s) ==
    [i \in 1..Len(s) |->
        IF s[i] \in DOMAIN UpperOf /\ Len(UpperOf[s[i]]) = 1
        THEN UpperOf[s[i]][1] ELSE s[i]]

\* C16 as stated: the output holds one token for every input character that is
\* a space or (uppercased) has a mapping, and the other characters are dropped.
C16_EncodeEachInputCharacter ==
    (call.fn = "encodeToMorse" /\ call.arg.type = "string") =>
        EncodesEach(UpperCharByChar(call.arg.value), call.ret)

\* C16 amended: the output holds one token for every character of the
\* uppercased input that is a space or has a mapping.
C16_EncodeEachUppercasedCharacter ==
    (call.fn = "encodeToMorse" /\ call.arg.type = "string") =>
        EncodesEach(toUpperCase(call.arg.value), call.ret)

\* C16 witness: a lower-case letter, a space and an unmapped character
C16_Witness ==
    call = [fn |-> "encodeToMorse", arg |-> Str(<<"a", " ", "#">>),
            ret |-> <<".", "-", " ", "/">>]

-----------------------------------------------------------------------------
(* Properties of the tagged and the fallback branch *)

\* the whole substring after the first occurrence of c
AfterFirst(line, c) ==
    LET i == CHOOSE k \in 1..Len(line) :
                 line[k] = c /\ \A j \in 1..(k - 1) : line[j] # c
    IN  SubSeq(line, i + 1, Len(line))

\* C17: a tagged line sets currentBuilding to the trimmed substring after the
\* first colon when that is non-empty and appends nothing; an empty payload
\* changes neither field.
C17_TaggedPayload ==
    [][\A line \in Lines :
          (isTagged(line) /\ fed' = Append(fed, line)) =>
              LET payload == Trim(AfterFirst(line, ":"))
              IN  /\ decodedText' = decodedText
                  /\ currentBuilding' = IF payload # <<>> THEN payload
                                        ELSE currentBuilding]_vars

MorseClass == {".", "-", "/", " ", "\n", "\r", "\t"}

\* the maximal runs of characters of the class in line, as <<first, last>>
MorseRuns(line) ==
    { r \in (1..Len(line)) \X (1..Len(line)) :
        /\ r[1] <= r[2]
        /\ \A j \in r[1]..r[2] : line[j] \in MorseClass
        /\ (r[1] = 1 \/ line[r[1] - 1] \notin MorseClass)
        /\ (r[2] = Len(line) \/ line[r[2] + 1] \notin MorseClass) }

\* the longest of them
LongestRuns(line) ==
    { SubSeq(line, r[1], r[2]) :
        r \in { q \in MorseRuns(line) :
                  \A o \in MorseRuns(line) : o[2] - o[1] <= q[2] - q[1] } }

\* a line no earlier branch of handleDataLine takes
IsFallbackLine(line) ==
    /\ ~ isWordBreak(line) /\ ~ isLetterBreak(line)
    /\ ~ isValidMorse(line) /\ ~ isDotDash(line) /\ ~ isTagged(line)

\* C18: a fallback line with a '.' or '-' in it sets currentBuilding to the
\* longest run of Morse characters of the line (shown trimmed) and leaves
\* decodedText unchanged.
C18_FallbackLongestRun ==
    [][\A line \in Lines :
          (/\ IsFallbackLine(line)
           /\ Includes(line, ".") \/ Includes(line, "-")
           /\ fed' = Append(fed, line)) =>
              /\ decodedText' = decodedText
              /\ \E run \in LongestRuns(line) :
                     currentBuilding' \in {run, Trim(run)}]_vars

-----------------------------------------------------------------------------
(* Properties of the error paths of a session *)

\* the disconnectDevice call that the catch block of readSerialData started
\* for port p returns in this step
AutoDisconnectReturns(i, p) ==
    /\ procs[i].op = "disconnectDevice"
    /\ procs[i].dev = p
    /\ loopState[p] = "errored"
    /\ procs'[i] = NoProc

\* C19: when a read of a connected serial session raises, the automatic
\* disconnect ends with isConnected false, connectionType null, serialPort
\* null and the port released (closed).
C19_ReadErrorReleasesPort ==
    [][\A i \in 1..MaxProcs, p \in Devices :
          AutoDisconnectReturns(i, p) =>
              /\ ~ isConnected'
              /\ connectionType' = "none"
              /\ serialPort' = 0
              /\ ~ portOpen'[p]]_vars

\* the connection state the claim of C20 lists
ConnectionState(s) ==
    [isConnected |-> s.isConnected, connectionType |-> s.connectionType,
     bluetoothDevice |-> s.bluetoothDevice,
     bluetoothCharacteristic |-> s.bluetoothCharacteristic,
     localStorage |-> s.localStorage]

\* a Bluetooth connection to device d with no handler suspended
BluetoothSession(d) ==
    /\ isConnected /\ connectionType = "bluetooth"
    /\ bluetoothDevice = d /\ bluetoothCharacteristic = d
    /\ gattConnected[d] /\ discListener[d]
    /\ \A i \in 1..MaxProcs : procs[i] = NoProc

\* disconnectDevice run to its end from the current state, stopNotifications
\* resolving
ExplicitDisconnect ==
    afterStopNotifications(disconnectDevice(Cur, 1), 1, TRUE)

\* C20: a peer-initiated disconnect of a Bluetooth session leaves the same
\* connection state as disconnectDevice would from the same state
\* (isConnected, connectionType, bluetoothDevice, bluetoothCharacteristic,
\* the persisted device_connected / connection_type / session flags), and
\* starts no handler.
C20_PeerDisconnectAsExplicit ==
    [][\A d \in Devices :
          (BluetoothSession(d) /\ Becomes(gattDisconnect(Cur, d))) =>
              /\ ConnectionState(Cur)' = ConnectionState(ExplicitDisconnect)
              /\ procs' = procs]_vars

\* a connect call i fails with no other handler suspended
ConnectFails(i) ==
    /\ procs[i].op \in {"connectSerial", "connectBluetooth"}
    /\ \A j \in 1..MaxProcs : j # i => procs[j] = NoProc
    /\ Becomes(finish(connectFailed(Cur), i))

\* C21: when connectSerial or connectBluetooth fails at any of its steps the
\* transport state is fully reset: isConnected false, connectionType null, no
\* port, device or characteristic kept, no GATT link left connected,
\* decodedText and currentBuilding unchanged, and no connection attempt
\* started.
C21_ConnectFailureResets ==
    [][\A i \in 1..MaxProcs :
          ConnectFails(i) =>
              /\ ~ isConnected' /\ connectionType' = "none"
              /\ serialPort' = 0
              /\ bluetoothDevice' = 0 /\ bluetoothCharacteristic' = 0
              /\ \A d \in Devices : ~ gattConnected'[d]
              /\ UNCHANGED <<decodedText, currentBuilding>>
              /\ \A j \in 1..MaxProcs : procs'[j] = NoProc]_vars

-----------------------------------------------------------------------------
(* Properties of LineBreakTransformer *)

\* the lines a transformer holding buf enqueues for the chunks, flush included
RECURSIVE runTransformer(_, _)
runTransformer(chunks, buf) ==
    IF chunks = <<>> THEN flush(buf)
    ELSE LET t == transform(buf, Head(chunks))
         IN  t.lines \o runTransformer(Tail(chunks), t.chunks)

\* every way of cutting text into at most n non-empty chunks
RECURSIVE Chunkings(_, _)
Chunkings(text, n) ==
    IF text = <<>> THEN {<<>>}
    ELSE IF n = 0 THEN {}
    ELSE UNION { { <<SubSeq(text, 1, k)>> \o rest :
                     rest \in Chunkings(SubSeq(text, k + 1, Len(text)), n - 1) } :
                 k \in 1..Len(text) }

\* the non-empty trimmed '\n'-separated segments of text
Segments(text) == trimmedNonEmpty(Split(text, "\n"))

\* C22: the lines LineBreakTransformer emits (transform over all chunks, then
\* flush) are the non-empty trimmed '\n'-separated segments of the
\* concatenated text, in order, wherever the chunk boundaries fall; the
\* trailing segment without a '\n' is held and emitted only by flush.
C22_LinesDependOnTextOnly ==
    LET text == Flatten(sent)
        parts == Split(text, "\n")
    IN  /\ \A cut \in Chunkings(text, MaxPieces) :
               runTransformer(cut, <<>>) = Segments(text)
        /\ streamClosed => fed = Segments(text)
        /\ ~ streamClosed =>
               /\ lineBuf[1] = Last(parts)
               /\ fed = trimmedNonEmpty(SubSeq(parts, 1, Len(parts) - 1))

\* C22 witness: the stream closed on text whose last segment has no '\n' and
\* spans two chunks; flush emitted it, trimmed, after an earlier line
C22_Witness ==
    /\ streamClosed
    /\ sent = << <<" ", ".", " ", "\n">>, <<"-">>, <<".">> >>
    /\ fed = << <<".">>, <<"-", ".">> >>

-----------------------------------------------------------------------------
(* Properties of the clear button *)

\* the connection state: the transport globals, the devices, the suspended
\* handlers and the persisted flags
ConnectionOf(s) ==
    <<s.isConnected, s.connectionType, s.serialPort, s.bluetoothDevice,
      s.bluetoothCharacteristic, s.reader, s.keepReading, s.connectDisabled,
      s.portOpen, s.loopState, s.lineBuf, s.gattConnected, s.notifying,
      s.listening, s.discListener, s.procs, s.localStorage>>

\* C23: clearCurrentMessage sets decodedText and currentBuilding to '' when
\* decodedText is empty or the user confirms, leaves both unchanged when the
\* user declines, and never changes the connection state.
C23_Clear ==
    \A ok \in BOOLEAN :
        LET n == clearCurrentMessage(Cur, ok)
        IN  /\ (decodedText = <<>> \/ ok) =>
                   n.decodedText = <<>> /\ n.currentBuilding = <<>>
            /\ (decodedText # <<>> /\ ~ ok) =>
                   n.decodedText = decodedText /\ n.currentBuilding = currentBuilding
            /\ ConnectionOf(n) = ConnectionOf(Cur)

\* C23 witness: the message was cleared while the serial session is connected
\* and its read loop is running
C23_Witness ==
    /\ isConnected /\ connectionType = "serial"
    /\ \E p \in Devices : loopState[p] = "reading"
    /\ fed # <<>>
    /\ decodedText = <<>> /\ currentBuilding = <<>>

-----------------------------------------------------------------------------
(* Properties of connectBluetooth *)

\* the peer exposes the service of the pair with the characteristic of the pair
ExposesPair(peer, pair) == peer[pair] # Absent /\ pair \in peer[pair]

\* call i of connectBluetooth is the only handler suspended, on the device and
\* the characteristic it obtained
AloneOn(i, d) ==
    /\ procs[i].op = "connectBluetooth" /\ procs[i].dev = d
    /\ \A j \in 1..MaxProcs : j # i => procs[j] = NoProc
    /\ bluetoothDevice = d

\* C24: a connectBluetooth attempt whose awaits resolve ends connected
\* (isConnected, connectionType 'bluetooth', notifications subscribed on the
\* characteristic found) when the peer exposes the primary pair or only the
\* fallback pair, the primary pair being used when both are there, and ends
\* disconnected when the peer exposes neither. Step by step: the call reaches
\* the device chooser; discovery goes on to startNotifications exactly for a
\* peer exposing a pair; startNotifications resolving ends connected.
C24_PrimaryThenFallback ==
    [][/\ \A i \in 1..MaxProcs :
             (/\ platform = "bluetooth"
              /\ procs[i] = NoProc
              /\ Becomes(connectDevice(Cur, i))) =>
                 procs'[i].pc = "requestDevice"
       /\ \A i \in 1..MaxProcs, d \in Devices, peer \in Peers :
             (/\ AloneOn(i, d)
              /\ procs[i].pc = "discover"
              /\ Becomes(discover(Cur, i, peer))) =>
                 IF ExposesPair(peer, "primary") \/ ExposesPair(peer, "fallback")
                 THEN /\ procs'[i].pc = "startNotifications"
                      /\ bluetoothCharacteristic' = d
                      /\ ExposesPair(peer, "primary") =>
                             characteristicFound(peer) = "primary"
                 ELSE /\ procs'[i] = NoProc
                      /\ ~ isConnected' /\ connectionType' = "none"
       /\ \A i \in 1..MaxProcs, d \in Devices :
             (/\ AloneOn(i, d)
              /\ procs[i].pc = "startNotifications"
              /\ bluetoothCharacteristic = d
              /\ Becomes(afterStartNotifications(Cur, i))) =>
                 /\ isConnected' /\ connectionType' = "bluetooth"
                 /\ notifying'[d] /\ listening'[d]
                 /\ procs'[i] = NoProc]_vars

-----------------------------------------------------------------------------
(* Properties of the serial read loop *)

\* C25: an explicit disconnect of an active serial connection, which clears
\* keepReading and cancels the reader, leaves no read loop waiting for a line
\* from the device; and a loop whose stream reports completion terminates.
C25_LoopEndsOnDisconnect ==
    [][/\ (ClickDisconnect /\ isConnected /\ connectionType = "serial") =>
              /\ ~ keepReading'
              /\ \A p \in Devices : loopState'[p] # "reading"
       /\ StreamDone =>
              \E p \in Devices : loopState[p] = "reading" /\ loopState'[p] # "reading"]_vars

-----------------------------------------------------------------------------
(* Properties of decodedText *)

IsPrefix(a, b) == Len(a) <= Len(b) /\ SubSeq(b, 1, Len(a)) = a

\* C26: every handleDataLine step and every addManualInput step leaves the
\* previous decodedText as a prefix of the new one; only the clear button
\* shortens it.
C26_AppendOnly ==
    [][/\ (FeedManualLine \/ ManualEntry) => IsPrefix(decodedText, decodedText')
       /\ IsPrefix(decodedText, decodedText') \/ ClickClear]_vars

\* C26 witness: a device line and then a manual entry extended the text
C26_Witness ==
    /\ fed = << <<"-">> >>
    /\ call = [fn |-> "addManualInput", arg |-> <<".", "-">>, ret |-> <<"A">>]
    /\ decodedText = <<"T", "A">>

-----------------------------------------------------------------------------
(* Properties of the branches of handleDataLine *)

\* the lines made of '.' and '-' only
DotDashLines == StringsUpTo({".", "-"}, MaxDotDash) \ {<<>>}

\* the texts and the letters in progress the dot/dash lines are tried on
DotDashTexts == {<<>>, <<"E">>, <<"E", " ">>, <<"?">>}
DotDashBuildings == {<<>>, <<".">>, <<".", "-", ".", "-">>}

\* every dot/dash line is valid Morse and goes through the complete-sequence
\* branch, whatever the text and the letter in progress
DotDashAlwaysComplete ==
    \A line \in DotDashLines, text \in DotDashTexts, building \in DotDashBuildings :
        /\ isDotDash(line) /\ isValidMorse(line)
        /\ handleDataLine(line, text, building)
               = [decodedText |-> appendDecoded(text, decodeMorse(line)),
                  currentBuilding |-> line]

\* C27: every line of '.' and '-' only is a valid Morse line, so in every state
\* handleDataLine treats it in the complete-sequence branch (its decode is
\* appended under the guard and the line becomes currentBuilding), never in
\* the partial-pattern branch; and a step on such a line does just that.
C27_PartialBranchUnreachable ==
    /\ DotDashAlwaysComplete
    /\ \A line \in Lines :
          isDotDash(line) =>
              handleDataLine(line, decodedText, currentBuilding)
                  = [decodedText |-> appendDecoded(decodedText, decodeMorse(line)),
                     currentBuilding |-> line]
    /\ (fed # <<>> /\ isDotDash(Last(fed))) => currentBuilding = Last(fed)

\* C27 witness: a dot/dash line of a letter was appended at once, and a second
\* one that is no letter became currentBuilding with its '?' held back
C27_Witness ==
    /\ fed = << <<".">>, <<".", ".", "-", "-">> >>
    /\ decodedText = <<"E">>
    /\ currentBuilding = <<".", ".", "-", "-">>

\* C28: a token of the codec table (the bare '/' apart) handled as a line
\* appends exactly the table's character for it to decodedText.
C28_InterpreterAgreesWithTable ==
    [][\A token \in TableTokens :
          fed' = Append(fed, token) =>
              decodedText' = Append(decodedText, MORSE_CODE[token])]_vars

NoHandlerSuspended == \A i \in 1..MaxProcs : procs[i] = NoProc

\* C29: the session does not stay connected without a running reader: once
\* every handler has run to its end, a session that reports a serial
\* connection has the read loop of its port still reading.
C29_NoConnectionWithoutReader ==
    (isConnected /\ connectionType = "serial" /\ NoHandlerSuspended) =>
        \E p \in Devices : p = serialPort /\ loopState[p] = "reading"

-----------------------------------------------------------------------------
(* Properties of the device sketches *)

\* C30: the line a pass of loop() sends is either a character line, a
\* non-empty string of '.' and '-', or the word-gap token '/'; and '/' is sent
\* only with morseBuffer empty, at most once since the last blink began, and
\* never before a character line has been sent.
C30_WordGapToken ==
    [][(firmware'.passes # firmware.passes /\ firmware'.tx # firmware.tx) =>
          IF Last(firmware'.tx) = <<"/">>
          THEN /\ firmware'.morseBuffer = <<>>
               /\ firmware'.gapTokens <= 1
               /\ \E k \in 1..Len(firmware.tx) : isDotDash(firmware.tx[k])
          ELSE isDotDash(Last(firmware'.tx))]_vars

====
